---- MODULE Spec2Model ----
(***************************************************************************)
(* LOD partitioning and adaptive quality of the city renderer.             *)
(*                                                                         *)
(*   LODManager (src/src/components/LODManager.tsx): the lodGroups memo    *)
(*   (distance partition), the smoothed FPS / adaptiveLODOffset and the    *)
(*   rendered element tree.                                                *)
(*   InstancedBuildingSystem (src/unnamed/part_007): categorisation of an  *)
(*   instanced group into instanced meshes.                                *)
(*   PerformanceOptimizer (src/unnamed/part_012): FPS sampling and the     *)
(*   adaptive adjustment of the LOD distances.                             *)
(*   usePerformanceMonitor (src/src/components/OptimizedPostProcessing.tsx)*)
(*   : the frame-time window and the post-processing quality it selects.   *)
(*                                                                         *)
(* Positions are taken on the x axis, so THREE.Vector3.distanceTo is the   *)
(* absolute difference of two coordinates.                                 *)
(***************************************************************************)
EXTENDS Integers, Sequences, FiniteSets, TLC

VARIABLES
    buildings,             \* LODManager prop: the building list, in input order
    maxDetailedBuildings,  \* LODManager prop
    cameraPosition,        \* camera.position (mutated in place by the camera rig)
    lodGroups,             \* value of the lodGroups memo: level -> building list
    memoCameraPosition,    \* camera position read by the last lodGroups computation
    rendered,              \* element tree returned by the last render
    instanceMatrixUpdates, \* instanced meshes whose set-up effect ran in the
                           \* last step: <<group level, category key>>
    performanceMetrics,    \* LODManager state: [fps, frameTime]
    adaptiveLODOffset,     \* value of the adaptiveLODOffset memo
    elapsedTime,           \* state.clock.elapsedTime, in milliseconds
    updateThrottleRef,     \* updateThrottleRef.current, in milliseconds
    lastCameraPosition,    \* LODManager state
    transitionAge,         \* history: evaluations of adaptiveLODOffset since its
                           \* value last changed, counted up to HysteresisK
    settings,              \* PerformanceOptimizer.settings (distances in 1/1000)
    metrics,               \* PerformanceOptimizer.metrics
    frameCount,            \* PerformanceOptimizer.frameCount
    lastTime,              \* PerformanceOptimizer.lastTime, in milliseconds
    fpsHistory,            \* PerformanceOptimizer.fpsHistory
    now,                   \* performance.now(), in milliseconds
    frameMs,               \* duration of the frames of the current second
    evaluationsBelow,      \* history: consecutive adaptQuality evaluations with the
                           \* average FPS below targetFPS * 0.8, counted up to K
    evaluationsAbove,      \* history: the same for above targetFPS * 1.1
    monitorFps,            \* usePerformanceMonitor state: fps
    targetQuality,         \* usePerformanceMonitor state: targetQuality
    frameTimes,            \* frameTimesRef.current
    monitorNow,            \* performance.now() of the last monitored frame
    stalls,                \* history: number of long frames so far
    vancouverBuildings,    \* useVancouverBuildings state: [buildings, loading,
                           \* error, usingFallback]; buildings as [source, count]
    loadBuildingsPc,       \* position of loadBuildings: "mounted", "fetching", "done"
    allBuildingsLength,    \* allBuildings.length of the load in progress
    fetchOffset,           \* offset of the load in progress
    fetchFailed,           \* history: a page of the load failed
    isAutoPlaying,         \* CinematicCamera state
    currentKeyframe,       \* CinematicCamera state: index into keyframes, from 0
    keyframeProgress,      \* CinematicCamera state, in milliseconds
    lastInput,             \* history: the key or frame tick handled last
    appStore,              \* useAppStore state
    lastStoreAction,       \* history: the store action applied last, [name, time]
    sceneObjects,          \* the Object3Ds handed to optimizeObjects:
                           \* [position, inFrustum, visible, lodLevel]
    returnedObjects,       \* indices of the objects optimizeObjects returned last
    lastObjectAction,      \* history: the operation on the objects applied last
    managerMounted,        \* a component using useLoadingManager is mounted
    managerTimer,          \* the pending timer of simulateLoading / finishLoading:
                           \* "none", "processStep", "interval", "finish"
    currentStep,           \* simulateLoading: currentStep, from 0
    currentProgress,       \* simulateLoading: currentProgress, in 1/48 percent
    throttleNow,           \* Date.now(), in milliseconds
    lastExecTime,          \* throttle: lastExecTime
    timeoutId,             \* throttle: the timer of timeoutId, [pending, due, args]
    executions,            \* history: the executions of func, [time, args]
    geoData,               \* useVancouverGeoData state: data; a loaded
                           \* dataset is held as the number of the load it is
                           \* from, an empty one as 0
    geoLoads,              \* the loadGeoData calls so far, in order:
                           \* [pc, isCancelled, options]
    geoMounted,            \* the component using useVancouverGeoData is mounted
    geoJsonLoad            \* the last call of loadVancouverBuildingsFromGeoJSON:
                           \* [status, features, maxBuildings, sampledFeatures,
                           \* buildings], the lists as their lengths

partitionVars == <<buildings, maxDetailedBuildings, lodGroups, memoCameraPosition>>
frameVars == <<performanceMetrics, adaptiveLODOffset, elapsedTime,
               updateThrottleRef, lastCameraPosition, transitionAge>>

lodVars == <<partitionVars, cameraPosition, rendered, instanceMatrixUpdates,
             frameVars>>
optimizerVars == <<settings, metrics, frameCount, lastTime, fpsHistory, now,
                   frameMs, evaluationsBelow, evaluationsAbove>>

monitorVars == <<monitorFps, targetQuality, frameTimes, monitorNow, stalls>>

loaderVars == <<vancouverBuildings, loadBuildingsPc, allBuildingsLength,
                fetchOffset, fetchFailed>>

\* the state of the application outside the LOD and quality subsystem
cinematicVars == <<isAutoPlaying, currentKeyframe, keyframeProgress, lastInput>>
storeVars == <<appStore, lastStoreAction>>
objectVars == <<sceneObjects, returnedObjects, lastObjectAction>>
managerVars == <<managerMounted, managerTimer, currentStep, currentProgress>>
throttleVars == <<throttleNow, lastExecTime, timeoutId, executions>>
geoVars == <<geoData, geoLoads, geoMounted>>
appVars == <<loaderVars, cinematicVars, storeVars, objectVars, managerVars,
             throttleVars, geoVars, geoJsonLoad>>

\* the state of the LOD and quality subsystem
coreVars == <<lodVars, optimizerVars, monitorVars>>

\* everything but the state of one part of the application
exceptLoader == <<coreVars, cinematicVars, storeVars, objectVars, managerVars,
                  throttleVars, geoVars, geoJsonLoad>>
exceptCinematic == <<coreVars, loaderVars, storeVars, objectVars, managerVars,
                     throttleVars, geoVars, geoJsonLoad>>
exceptStore == <<coreVars, loaderVars, cinematicVars, objectVars, managerVars,
                 throttleVars, geoVars, geoJsonLoad>>
appExceptObjects == <<loaderVars, cinematicVars, storeVars, managerVars,
                      throttleVars, geoVars, geoJsonLoad>>
exceptObjects == <<coreVars, appExceptObjects>>
exceptManager == <<coreVars, loaderVars, cinematicVars, objectVars, throttleVars,
                   geoVars, geoJsonLoad>>
exceptThrottle == <<coreVars, loaderVars, cinematicVars, storeVars, objectVars,
                    managerVars, geoVars, geoJsonLoad>>
exceptGeo == <<coreVars, loaderVars, cinematicVars, storeVars, objectVars,
               managerVars, throttleVars, geoJsonLoad>>
exceptGeoJson == <<coreVars, loaderVars, cinematicVars, storeVars, objectVars,
                   managerVars, throttleVars, geoVars>>

vars == <<buildings, maxDetailedBuildings, cameraPosition, lodGroups,
          memoCameraPosition, rendered, instanceMatrixUpdates,
          performanceMetrics, adaptiveLODOffset,
          elapsedTime, updateThrottleRef, lastCameraPosition, transitionAge,
          settings, metrics, frameCount, lastTime, fpsHistory, now, frameMs,
          evaluationsBelow, evaluationsAbove,
          monitorFps, targetQuality, frameTimes, monitorNow, stalls, appVars>>

----------------------------------------------------------------------------
(* Bounds of the model *)

MaxBuildings == 3
MaxDetailedBound == 3
\* frames are stepped while the clock is below this many milliseconds
MaxElapsedMs == 1100
\* the run length K of the hysteresis the quality controller is to keep
HysteresisK == 3
\* the optimizer is stepped while performance.now() is below this
MaxOptimizerMs == 3100
\* the monitor is stepped while performance.now() is below this, with at
\* most MaxStalls long frames
MaxMonitorMs == 1600
MaxStalls == 2
\* the longest row of buildings the batches are built for
MaxRowBuildings == 22
\* the building dataset has at most this many full pages of records
MaxFullPages == 3

\* x coordinates of buildings and of the camera
Coordinates == {0, 60, 300, 600, -2400, 2600}
CameraCoordinates == {0, 100}
MaxDetailedValues == 0..MaxDetailedBound

\* materialType of BuildingInstance
MaterialTypes == {"glass", "concrete", "metal", "brick"}

\* scale[1] and materialType of the building with a given id: the content
\* source cycles through four heights and, half as fast, four materials
BuildingHeight(id) ==
    CASE id % 4 = 1 -> 20
      [] id % 4 = 2 -> 150
      [] id % 4 = 3 -> 60
      [] OTHER -> 250
BuildingMaterial(id) ==
    CASE (id \div 2) % 4 = 0 -> "glass"
      [] (id \div 2) % 4 = 1 -> "concrete"
      [] (id \div 2) % 4 = 2 -> "metal"
      [] OTHER -> "brick"

----------------------------------------------------------------------------
(* LODManager: LOD distance thresholds *)

ULTRA_HIGH == 100
HIGH == 250
MEDIUM == 500
LOW == 1000
VERY_LOW == 2500

Levels == 0..4

Abs(x) == IF x < 0 THEN -x ELSE x

\* new THREE.Vector3(...building.position).distanceTo(cameraPos)
DistanceTo(position, cameraPos) == Abs(position - cameraPos)

\* buildings.map(building => ({...building, distance}))
WithDistance(bs, cameraPos) ==
    [i \in 1..Len(bs) |->
        [id |-> bs[i].id, position |-> bs[i].position,
         distance |-> DistanceTo(bs[i].position, cameraPos)]]

\* the comparator of the sort: a.distance - b.distance
CompareDistance(a, b) == a.distance - b.distance

\* Array.prototype.sort is stable: an element is placed after every element
\* already placed that does not compare greater than it.
RECURSIVE InsertSorted(_, _)
InsertSorted(sorted, b) ==
    IF sorted = <<>> THEN <<b>>
    ELSE IF CompareDistance(sorted[Len(sorted)], b) <= 0 THEN Append(sorted, b)
    ELSE Append(InsertSorted(SubSeq(sorted, 1, Len(sorted) - 1), b),
                sorted[Len(sorted)])

RECURSIVE SortByDistance(_)
SortByDistance(bs) ==
    IF bs = <<>> THEN <<>>
    ELSE InsertSorted(SortByDistance(SubSeq(bs, 1, Len(bs) - 1)), bs[Len(bs)])

EmptyGroups == [l \in Levels |-> <<>>]

Push(groups, level, building) ==
    [groups EXCEPT ![level] = Append(@, building)]

\* AssignLOD with the else of the first two branches lost: a building that
\* took a slot of group 0 is tested again for groups 1..4.
AssignLOD_Fallthrough(groups, building, maxDetailed) ==
    LET g0 == IF building.distance < ULTRA_HIGH /\ 2 * Len(groups[0]) < maxDetailed
                 THEN Push(groups, 0, building) ELSE groups
    IN  IF building.distance < HIGH /\ Len(g0[1]) < maxDetailed
            THEN Push(g0, 1, building)
        ELSE IF building.distance < MEDIUM THEN Push(g0, 2, building)
        ELSE IF building.distance < LOW THEN Push(g0, 3, building)
        ELSE IF building.distance < VERY_LOW THEN Push(g0, 4, building)
        ELSE g0

\* AssignLOD with the capacity tests nested inside the distance tests: a
\* building in range of a full group is dropped instead of spilling.
AssignLOD_NoSpill(groups, building, maxDetailed) ==
    IF building.distance < ULTRA_HIGH
        THEN IF 2 * Len(groups[0]) < maxDetailed
                THEN Push(groups, 0, building) ELSE groups
    ELSE IF building.distance < HIGH
        THEN IF Len(groups[1]) < maxDetailed
                THEN Push(groups, 1, building) ELSE groups
    ELSE IF building.distance < MEDIUM THEN Push(groups, 2, building)
    ELSE IF building.distance < LOW THEN Push(groups, 3, building)
    ELSE IF building.distance < VERY_LOW THEN Push(groups, 4, building)
    ELSE groups

\* AssignLOD with spilled buildings sent to the group of their own distance
\* range only: one that overflows groups 0 and 1 skips group 2.
AssignLOD_SpillToLow(groups, building, maxDetailed) ==
    IF building.distance < ULTRA_HIGH /\ 2 * Len(groups[0]) < maxDetailed
        THEN Push(groups, 0, building)
    ELSE IF building.distance < HIGH /\ Len(groups[1]) < maxDetailed
        THEN Push(groups, 1, building)
    ELSE IF building.distance < HIGH THEN Push(groups, 3, building)
    ELSE IF building.distance < MEDIUM THEN Push(groups, 2, building)
    ELSE IF building.distance < LOW THEN Push(groups, 3, building)
    ELSE IF building.distance < VERY_LOW THEN Push(groups, 4, building)
    ELSE groups

\* AssignLOD with an inclusive last threshold.
AssignLOD_InclusiveCull(groups, building, maxDetailed) ==
    IF building.distance < ULTRA_HIGH /\ 2 * Len(groups[0]) < maxDetailed
        THEN Push(groups, 0, building)
    ELSE IF building.distance < HIGH /\ Len(groups[1]) < maxDetailed
        THEN Push(groups, 1, building)
    ELSE IF building.distance < MEDIUM THEN Push(groups, 2, building)
    ELSE IF building.distance < LOW THEN Push(groups, 3, building)
    ELSE IF building.distance <= VERY_LOW THEN Push(groups, 4, building)
    ELSE groups

\* body of buildingsWithDistance.forEach: the if / else-if chain
AssignLOD(groups, building, maxDetailed) ==
    IF building.distance < ULTRA_HIGH /\ 2 * Len(groups[0]) < maxDetailed
        THEN Push(groups, 0, building)
    ELSE IF building.distance < HIGH /\ Len(groups[1]) < maxDetailed
        THEN Push(groups, 1, building)
    ELSE IF building.distance < MEDIUM THEN Push(groups, 2, building)
    ELSE IF building.distance < LOW THEN Push(groups, 3, building)
    ELSE IF building.distance < VERY_LOW THEN Push(groups, 4, building)
    ELSE groups

RECURSIVE ForEachAssign(_, _, _)
ForEachAssign(groups, sorted, maxDetailed) ==
    IF sorted = <<>> THEN groups
    ELSE ForEachAssign(AssignLOD(groups, Head(sorted), maxDetailed),
                       Tail(sorted), maxDetailed)

\* the lodGroups memo
ComputeLodGroups(bs, cameraPos, maxDetailed) ==
    ForEachAssign(EmptyGroups, SortByDistance(WithDistance(bs, cameraPos)),
                  maxDetailed)

----------------------------------------------------------------------------
(* InstancedBuildingSystem: categorisation of one instanced group *)

HeightCategories == {"low", "medium", "high", "skyscraper"}

HeightCategory(height) ==
    IF height < 30 THEN "low"
    ELSE IF height < 100 THEN "medium"
    ELSE IF height < 200 THEN "high"
    ELSE "skyscraper"

CategoryKey(building) ==
    <<HeightCategory(BuildingHeight(building.id)), BuildingMaterial(building.id)>>

RECURSIVE CategorizeInto(_, _)
CategorizeInto(categories, bs) ==
    IF bs = <<>> THEN categories
    ELSE LET key == CategoryKey(Head(bs))
             prev == IF key \in DOMAIN categories THEN categories[key] ELSE <<>>
         IN CategorizeInto(
                [k \in DOMAIN categories \cup {key} |->
                    IF k = key THEN Append(prev, Head(bs).id) ELSE categories[k]],
                Tail(bs))

\* categorizeBuildingsForInstancing: category key -> ids of its instances
CategorizeBuildingsForInstancing(bs) == CategorizeInto(<<>>, bs)

----------------------------------------------------------------------------
(* LODManager: the returned element tree *)

Min(a, b) == IF a < b THEN a ELSE b

\* DetailedElements emitting elements for the group with details only
DetailedElements_DetailsOnly(group, hasDetails) ==
    IF hasDetails
        THEN [i \in 1..Len(group) |-> [id |-> group[i].id, hasDetails |-> hasDetails]]
        ELSE <<>>

\* lodGroups[level].map(building => <DetailedBuilding key={building.id} .../>)
DetailedElements(group, hasDetails) ==
    [i \in 1..Len(group) |-> [id |-> group[i].id, hasDetails |-> hasDetails]]

\* InstancedElement mounting a system only for a group of several buildings
InstancedElement_SkipSingle(group, lodLevel) ==
    IF Len(group) > 1
        THEN {[lodLevel |-> lodLevel,
               categories |-> CategorizeBuildingsForInstancing(group)]}
        ELSE {}

\* lodGroups[level].length > 0 && <InstancedBuildingSystem .../>
InstancedElement(group, lodLevel) ==
    IF Len(group) > 0
        THEN {[lodLevel |-> lodLevel,
               categories |-> CategorizeBuildingsForInstancing(group)]}
        ELSE {}

RenderTree(groups, lodOffset) ==
    [ultraHigh |-> DetailedElements(groups[0], TRUE),
     high      |-> DetailedElements(groups[1], FALSE),
     medium    |-> InstancedElement(groups[2], Min(1 + lodOffset, 3)),
     low       |-> InstancedElement(groups[3], Min(2 + lodOffset, 3)),
     veryLow   |-> InstancedElement(groups[4], 3)]

\* the instanced meshes of an element tree: one for every category of every
\* InstancedBuildingSystem that has instances (hasInstances)
BatchesOf(elements, level) ==
    {[level |-> level, key |-> key, instances |-> e.categories[key]] :
        <<e, key>> \in {<<e, key>> \in elements \X (HeightCategories \X MaterialTypes) :
                           /\ key \in DOMAIN e.categories
                           /\ Len(e.categories[key]) > 0}}

Batches(tree) ==
    BatchesOf(tree.medium, 2) \cup BatchesOf(tree.low, 3)
        \cup BatchesOf(tree.veryLow, 4)

\* The set-up effect of InstancedBuildingCategory (setMatrixAt for every
\* instance, instanceMatrix.needsUpdate = true) depends on category.instances.
\* A computation of lodGroups makes new group arrays, the categories memo of
\* every InstancedBuildingSystem then makes new instances arrays, and the
\* effect of every instanced mesh of the tree runs.
SetUpEffects(tree) == {<<b.level, b.key>> : b \in Batches(tree)}

----------------------------------------------------------------------------
(* LODManager: smoothed FPS and adaptive LOD offset.  Times are in            *)
(* milliseconds; x * 0.9 + y * 0.1 is taken exactly, as (9x + y) / 10.        *)

INITIAL_FPS == 60
INITIAL_FRAME_TIME == 16
FPS_SIGNIFICANT == 30
FPS_MODERATE == 45
THROTTLE_MS == 100
CAMERA_MOVED_DISTANCE == 10

\* durations of a frame, as clock.getDelta() reports them
FrameDeltas == {5, 100}

\* Math.round(n / d) for n >= 0, d > 0
RoundDiv(n, d) == (2 * n + d) \div (2 * d)

\* The number Infinity, above every finite FPS: 1 / 0 is Infinity,
\* Math.round keeps it, and a sum with a term Infinity is Infinity.
Infinity == 1000000

\* const fps = Math.round(1 / deltaTime)
FrameFps(dt) == IF dt = 0 THEN Infinity ELSE RoundDiv(1000, dt)

\* Math.round((prev.fps * 0.9) + (fps * 0.1))
SmoothedFps(prevFps, fps) ==
    IF prevFps = Infinity \/ fps = Infinity THEN Infinity
    ELSE RoundDiv(9 * prevFps + fps, 10)

\* the adaptiveLODOffset memo
AdaptiveLODOffset(fps) ==
    IF fps < FPS_SIGNIFICANT THEN 2
    ELSE IF fps < FPS_MODERATE THEN 1
    ELSE 0

----------------------------------------------------------------------------
(* PerformanceOptimizer.  Distances are held in thousandths, products with   *)
(* 0.9, 0.95, 1.02 and 1.05 are cut to a thousandth.                          *)

DistanceScale == 1000
FPS_WINDOW_MS == 1000
FPS_HISTORY_LENGTH == 10

DefaultSettings ==
    [enableLOD |-> TRUE,
     enableFrustumCulling |-> FALSE,
     maxRenderDistance |-> 5000 * DistanceScale,
     lodDistances |-> [high |-> 1200 * DistanceScale,
                       medium |-> 2500 * DistanceScale,
                       low |-> 4000 * DistanceScale],
     targetFPS |-> 60,
     adaptiveQuality |-> FALSE]

DefaultMetrics == [fps |-> 60, visibleObjects |-> 0]

Max(a, b) == IF a > b THEN a ELSE b

RECURSIVE SumSeq(_)
SumSeq(q) == IF q = <<>> THEN 0 ELSE Head(q) + SumSeq(Tail(q))

\* avgFPS < targetFPS * 0.8, avgFPS being reduce(+) / length (NaN, and the
\* comparison false, for an empty history)
PoorPerformance(history, targetFPS) ==
    Len(history) > 0 /\ 10 * SumSeq(history) < 8 * targetFPS * Len(history)

\* avgFPS > targetFPS * 1.1
GoodPerformance(history, targetFPS) ==
    Len(history) > 0 /\ 10 * SumSeq(history) > 11 * targetFPS * Len(history)

\* PerformanceOptimizer.adaptQuality
AdaptQuality(st, history) ==
    IF PoorPerformance(history, st.targetFPS) THEN
        [st EXCEPT
            !.lodDistances.high = Max(200 * DistanceScale, (@ * 9) \div 10),
            !.lodDistances.medium = Max(800 * DistanceScale, (@ * 9) \div 10),
            !.maxRenderDistance = Max(2000 * DistanceScale, (@ * 95) \div 100)]
    ELSE IF GoodPerformance(history, st.targetFPS) THEN
        [st EXCEPT
            !.lodDistances.high = Min(600 * DistanceScale, (@ * 105) \div 100),
            !.lodDistances.medium = Min(1800 * DistanceScale, (@ * 105) \div 100),
            !.maxRenderDistance = Min(4000 * DistanceScale, (@ * 102) \div 100)]
    ELSE st

\* fpsHistory.push(fps); if (length > 10) shift()
PushHistory(history, fps) ==
    LET pushed == Append(history, fps)
    IN IF Len(pushed) > FPS_HISTORY_LENGTH THEN Tail(pushed) ELSE pushed

\* durations of the frames the optimizer is driven with; the duration
\* changes between two FPS samples only
OptimizerFrameMs == {10, 16, 40}

\* the partial settings passed to updateSettings
SettingsUpdates == {[adaptiveQuality |-> TRUE], [adaptiveQuality |-> FALSE]}

\* partial settings that replace the LOD distances: the default ones, and
\* ones that do not increase (high above medium)
DistanceUpdates ==
    {[lodDistances |-> [high |-> 1200 * DistanceScale,
                        medium |-> 2500 * DistanceScale,
                        low |-> 4000 * DistanceScale]],
     [lodDistances |-> [high |-> 2500 * DistanceScale,
                        medium |-> 1200 * DistanceScale,
                        low |-> 4000 * DistanceScale]]}

\* { ...this.settings, ...newSettings }
MergeSettings(st, newSettings) ==
    [f \in DOMAIN st |-> IF f \in DOMAIN newSettings THEN newSettings[f] ELSE st[f]]

----------------------------------------------------------------------------
(* usePerformanceMonitor *)

FRAME_WINDOW == 30
MONITOR_INITIAL_FPS == 60

\* performance.now() deltas of a regular frame and of a long frame
RegularFrameMs == 16
LongFrameMs == 1000

\* sum over index >= 1 of time[index] - time[index - 1]
RECURSIVE SumOfDeltas(_)
SumOfDeltas(times) ==
    IF Len(times) <= 1 THEN 0
    ELSE (times[Len(times)] - times[Len(times) - 1])
            + SumOfDeltas(SubSeq(times, 1, Len(times) - 1))

\* frameTimesRef.current.push(currentTime); if (length > 30) shift()
PushFrameTime(times, currentTime) ==
    LET pushed == Append(times, currentTime)
    IN IF Len(pushed) > FRAME_WINDOW THEN Tail(pushed) ELSE pushed

\* avgFps < limit, for avgFps = 1000 / (sumOfDeltas / 29)
AvgFpsBelow(sumOfDeltas, limit) ==
    1000 * (FRAME_WINDOW - 1) < limit * sumOfDeltas

\* the adaptive quality adjustment of usePerformanceMonitor
TargetQualityFor(sumOfDeltas) ==
    IF AvgFpsBelow(sumOfDeltas, 30) THEN "low"
    ELSE IF AvgFpsBelow(sumOfDeltas, 45) THEN "medium"
    ELSE IF AvgFpsBelow(sumOfDeltas, 55) THEN "high"
    ELSE "ultra"

QualityRank(q) ==
    IF q = "low" THEN 0 ELSE IF q = "medium" THEN 1 ELSE IF q = "high" THEN 2 ELSE 3

----------------------------------------------------------------------------
(* Inputs *)

RECURSIVE SeqsOfLen(_, _)
SeqsOfLen(S, n) ==
    IF n = 0 THEN {<<>>}
    ELSE {Append(s, x) : s \in SeqsOfLen(S, n - 1), x \in S}

\* The content source numbers the buildings of a list 1..n, in ascending or
\* in descending order of the list.
IdOrders(n) == {[i \in 1..n |-> i], [i \in 1..n |-> n + 1 - i]}

ListOf(ps, ids) == [i \in 1..Len(ps) |-> [id |-> ids[i], position |-> ps[i]]]

PositionsOf(bs) == [i \in 1..Len(bs) |-> bs[i].position]

\* building lists with pairwise distinct ids
BuildingLists ==
    UNION {{ListOf(ps, ids) : ids \in IdOrders(n), ps \in SeqsOfLen(Coordinates, n)}
           : n \in 0..MaxBuildings}

\* A content reload rebuilds the list wholesale; the reloads stepped through
\* here keep the positions, add one building or drop the last one.
Reloads(bs) ==
    LET ps == PositionsOf(bs)
        grown == IF Len(ps) < MaxBuildings
                    THEN {Append(ps, c) : c \in Coordinates} ELSE {}
        shrunk == IF Len(ps) > 0 THEN {SubSeq(ps, 1, Len(ps) - 1)} ELSE {}
    IN UNION {{ListOf(q, ids) : ids \in IdOrders(Len(q))}
              : q \in {ps} \cup grown \cup shrunk}

----------------------------------------------------------------------------
(* useVancouverBuildings: loading of the building data with fallback *)

CHUNK_SIZE == 1000
MAX_REAL_BUILDINGS == 2000

\* generateFallbackBuildings: downtown, mid-rise and low-rise buildings
FallbackBuildingCount == 150 + 400 + 800

NoBuildings == [source |-> "none", count |-> 0]

\* useState initial values
InitialVancouverBuildings ==
    [buildings |-> NoBuildings, loading |-> TRUE, error |-> "null",
     usingFallback |-> FALSE]

\* outcomes of one fetchBuildingData + processBuildings: a failure (rejected
\* fetch, response not ok, invalid body), or a page of records of which some
\* are usable buildings
PageResults ==
    {[records |-> r, usable |-> u] :
        <<r, u>> \in {<<r, u>> \in {0, 400, CHUNK_SIZE} \X {0, 250, 400, 900, CHUNK_SIZE} :
                        u <= r}}

\* the catch block followed by the finally block, keeping the usual order of
\* the state setters
FallbackState_KeepBuildings(st) ==
    [st EXCEPT !.error = "Using fallback building data due to API unavailability",
               !.usingFallback = TRUE,
               !.loading = FALSE]

\* the catch block followed by the finally block
FallbackState(st) ==
    [st EXCEPT !.error = "Using fallback building data due to API unavailability",
               !.usingFallback = TRUE,
               !.buildings = [source |-> "fallback", count |-> FallbackBuildingCount],
               !.loading = FALSE]

\* the end of the try block when buildings were received, and the finally block
LoadedState(st, count) ==
    [st EXCEPT !.buildings = [source |-> "api", count |-> count],
               !.loading = FALSE]

LoaderInit ==
    /\ vancouverBuildings = InitialVancouverBuildings
    /\ loadBuildingsPc = "mounted"
    /\ allBuildingsLength = 0
    /\ fetchOffset = 0
    /\ fetchFailed = FALSE

-----------------------------------------------------------------------------
(* CinematicCamera: keyframe navigation *)

\* duration of each entry of keyframes, in milliseconds
KeyframeDurations == <<5000, 3500, 4000, 3000, 3500, 4000, 2500, 4500, 5000>>

\* keyframes.length
KeyframeCount == Len(KeyframeDurations)

\* keyframes[index].duration
DurationOf(index) == KeyframeDurations[index + 1]

\* frame deltas of the camera's frame callback, in milliseconds
CinematicFrameMs == {500, 2500}

\* the 'arrowright' case without the clamp at the last keyframe
ArrowRightKeyframe_Unclamped(prev) == prev + 1

\* prev => Math.min(keyframes.length - 1, prev + 1)
ArrowRightKeyframe(prev) == Min(KeyframeCount - 1, prev + 1)

\* prev => Math.max(0, prev - 1)
ArrowLeftKeyframe(prev) == Max(0, prev - 1)

CinematicInit ==
    /\ isAutoPlaying = FALSE
    /\ currentKeyframe = 0
    /\ keyframeProgress = 0
    /\ lastInput = "none"

----------------------------------------------------------------------------
(* useAppStore: the application store.  Hours are whole numbers;           *)
(* loadingProgress is held in 1/48 of a percent, the unit in which every    *)
(* progressIncrement of useLoadingManager is a whole number.                *)

ProgressScale == 48

WeatherConditions == {"clear", "rainy"}
CityIds == {"vancouver", "toronto"}
SelectableBuildings == {"undefined", "building-1"}
LoadingMessages == {"Initializing...", "Complete!"}
ProgressInputs == {0, 100 * ProgressScale}

\* arguments of setTimeOfDay: below, at the ends of, inside and above 0..24
TimeInputs == {0 - 5, 0, 7, 24, 30}

\* the clamp without its upper end
ClampTimeOfDay_NoUpper(time) == Max(0, time)

\* Math.max(0, Math.min(24, time))
ClampTimeOfDay(time) == Max(0, Min(24, time))

\* the initial state of the store (showStats of a production build)
InitialAppStore ==
    [isLoading |-> TRUE, loadingProgress |-> 0,
     loadingMessage |-> "Initializing...", selectedBuilding |-> "undefined",
     activeCity |-> "vancouver", isMenuOpen |-> FALSE, showStats |-> FALSE,
     timeOfDay |-> 12, weatherCondition |-> "clear"]

StoreInit ==
    /\ appStore = InitialAppStore
    /\ lastStoreAction = [name |-> "create", time |-> 0]

----------------------------------------------------------------------------
(* PerformanceOptimizer.optimizeObjects.  The material settings applyLOD    *)
(* makes for the levels 0..2 are held as the level itself.                  *)

\* number of objects of the scene
MaxObjects == 2

\* positions of the objects, in world units: within lodDistances.high,
\* between medium and low, between low and maxRenderDistance, beyond it
ObjectCoordinates == {1000, 3000, 4500, 6000}

\* an Object3D as it is created: visible, no LOD applied yet
NewObject(x, seen) ==
    [position |-> x * DistanceScale, inFrustum |-> seen, visible |-> TRUE,
     lodLevel |-> 0]

\* PerformanceOptimizer.applyLOD
ApplyLOD(object, distance, st) ==
    LET lodLevel == IF distance > st.lodDistances.low THEN 3
                    ELSE IF distance > st.lodDistances.medium THEN 2
                    ELSE IF distance > st.lodDistances.high THEN 1
                    ELSE 0
    IN IF lodLevel >= 3
          THEN [object EXCEPT !.visible = FALSE]
          ELSE [object EXCEPT !.visible = TRUE, !.lodLevel = lodLevel]

\* the loop body that keeps what applyLOD decided
OptimizeObject_KeepCull(obj, cameraPos, st) ==
    LET distance == Abs(cameraPos - obj.position)
    IN IF distance > st.maxRenderDistance
          THEN [object |-> [obj EXCEPT !.visible = FALSE], pushed |-> FALSE]
       ELSE IF st.enableFrustumCulling /\ ~obj.inFrustum
          THEN [object |-> [obj EXCEPT !.visible = FALSE], pushed |-> FALSE]
       ELSE LET lod == IF st.enableLOD THEN ApplyLOD(obj, distance, st) ELSE obj
            IN [object |-> lod, pushed |-> lod.visible]

\* one pass of the loop of optimizeObjects: the object afterwards, and
\* whether it was pushed to visibleObjects
OptimizeObject(obj, cameraPos, st) ==
    LET distance == Abs(cameraPos - obj.position)
    IN IF distance > st.maxRenderDistance
          THEN [object |-> [obj EXCEPT !.visible = FALSE], pushed |-> FALSE]
       ELSE IF st.enableFrustumCulling /\ ~obj.inFrustum
          THEN [object |-> [obj EXCEPT !.visible = FALSE], pushed |-> FALSE]
       ELSE LET lod == IF st.enableLOD THEN ApplyLOD(obj, distance, st) ELSE obj
            IN [object |-> [lod EXCEPT !.visible = TRUE], pushed |-> TRUE]

RECURSIVE PushedIndices(_, _, _, _)
PushedIndices(objects, i, cameraPos, st) ==
    IF i > Len(objects) THEN <<>>
    ELSE (IF OptimizeObject(objects[i], cameraPos, st).pushed THEN <<i>> ELSE <<>>)
         \o PushedIndices(objects, i + 1, cameraPos, st)

ObjectInit ==
    /\ sceneObjects = [i \in 1..MaxObjects |-> NewObject(1000, TRUE)]
    /\ returnedObjects = <<>>
    /\ lastObjectAction = "none"

----------------------------------------------------------------------------
(* useLoadingManager: the simulated loading sequence *)

LOADING_STEPS ==
    <<[name |-> "Initializing 3D engine...", weight |-> 10, duration |-> 500],
      [name |-> "Loading building data...", weight |-> 30, duration |-> 1500],
      [name |-> "Processing geometries...", weight |-> 25, duration |-> 1000],
      [name |-> "Applying materials...", weight |-> 15, duration |-> 800],
      [name |-> "Setting up lighting...", weight |-> 10, duration |-> 600],
      [name |-> "Optimizing performance...", weight |-> 10, duration |-> 400]>>

\* the period of the step interval, in milliseconds
StepIntervalMs == 50

RECURSIVE TotalWeightFrom(_)
TotalWeightFrom(i) ==
    IF i > Len(LOADING_STEPS) THEN 0
    ELSE LOADING_STEPS[i].weight + TotalWeightFrom(i + 1)

\* LOADING_STEPS.reduce((sum, step) => sum + step.weight, 0)
totalWeight == TotalWeightFrom(1)

\* (step.weight / totalWeight) * 100 of step number step (from 0)
StepProgress(step) ==
    (LOADING_STEPS[step + 1].weight * 100 * ProgressScale) \div totalWeight

\* stepProgress / (stepDuration / 50)
ProgressIncrement(step) ==
    (StepProgress(step) * StepIntervalMs) \div LOADING_STEPS[step + 1].duration

\* (currentStep + 1) * (stepProgress + (currentStep * stepProgress))
StepThreshold(step) ==
    (step + 1) * (StepProgress(step) + step * StepProgress(step))

ManagerInit ==
    /\ managerMounted = FALSE
    /\ managerTimer = "none"
    /\ currentStep = 0
    /\ currentProgress = 0

----------------------------------------------------------------------------
(* throttle(func, delay) *)

\* the delay of the throttled function, in milliseconds
ThrottleDelay == 3

\* Date.now() when the throttled function is created
ThrottleStart == 10

\* the clock of the model stops after this many milliseconds
MaxThrottleMs == 6

\* calls are made until func has been executed this many times
MaxCalls == 3

NoTimeout == [pending |-> FALSE, due |-> 0, args |-> 0]

ThrottleInit ==
    /\ throttleNow = ThrottleStart
    /\ lastExecTime = 0
    /\ timeoutId = NoTimeout
    /\ executions = <<>>

----------------------------------------------------------------------------
(* useVancouverGeoData: loading with cancellation *)

\* number of loads started
MaxLoads == 3

\* the options the hook is rendered with
GeoOptions ==
    {[maxBuildings |-> 500, enableParks |-> FALSE, enableWater |-> FALSE,
      enableZoning |-> FALSE],
     [maxBuildings |-> 200, enableParks |-> FALSE, enableWater |-> FALSE,
      enableZoning |-> FALSE],
     [maxBuildings |-> 500, enableParks |-> TRUE, enableWater |-> TRUE,
      enableZoning |-> FALSE]}

\* useState initial value
InitialGeoData ==
    [buildings |-> 0, parks |-> 0, water |-> 0, zoning |-> 0, loading |-> TRUE,
     error |-> "null", progress |-> 0]

\* the test that ignores isCancelled
IsCancelled_Never(load) == FALSE

\* if (isCancelled) of the closure of a load
IsCancelled(load) == load.isCancelled

\* promises.length > 0
HasExtras(options) ==
    options.enableParks \/ options.enableWater \/ options.enableZoning

\* the datasets requested by the options
ExtrasOf(options) ==
    {d \in {"parks", "water", "zoning"} :
        \/ d = "parks" /\ options.enableParks
        \/ d = "water" /\ options.enableWater
        \/ d = "zoning" /\ options.enableZoning}

\* the cleanup of the effect: isCancelled = true in the closure of the
\* latest load
Cleanup(loads) ==
    IF loads = <<>> THEN loads
    ELSE [loads EXCEPT ![Len(loads)].isCancelled = TRUE]

GeoInit ==
    /\ geoData = InitialGeoData
    /\ geoLoads = <<>>
    /\ geoMounted = FALSE

----------------------------------------------------------------------------
(* loadVancouverBuildingsFromGeoJSON: sampling of the dataset *)

\* largest number of features of the dataset
MaxFeatures == 12

\* largest maxBuildings
MaxSampleCap == 5

\* largest number of sampled features parseBuilding returns null for
MaxParseFailures == 1

\* Math.max(1, Math.floor(data.features.length / maxBuildings))
SampleRate(n, maxB) == Max(1, n \div maxB)

\* data.features.filter((_, index) => index % sampleRate === 0), as indices
SampledFeatures(n, maxB) ==
    {index \in 0..(n - 1) : index % SampleRate(n, maxB) = 0}

NoGeoJsonLoad ==
    [status |-> "none", features |-> 0, maxBuildings |-> 1,
     sampledFeatures |-> 0, buildings |-> 0]

AppInit ==
    /\ LoaderInit
    /\ CinematicInit
    /\ StoreInit
    /\ ObjectInit
    /\ ManagerInit
    /\ ThrottleInit
    /\ GeoInit
    /\ geoJsonLoad = NoGeoJsonLoad

----------------------------------------------------------------------------
(* Specification of the LODManager partition *)

\* new PerformanceOptimizer()
OptimizerInit ==
    /\ settings = DefaultSettings
    /\ metrics = DefaultMetrics
    /\ frameCount = 0
    /\ lastTime = 0
    /\ fpsHistory = <<>>
    /\ now = 0
    /\ frameMs \in OptimizerFrameMs
    /\ evaluationsBelow = 0
    /\ evaluationsAbove = 0

\* first render of usePerformanceMonitor
MonitorInit ==
    /\ monitorFps = MONITOR_INITIAL_FPS
    /\ targetQuality = "high"
    /\ frameTimes = <<>>
    /\ monitorNow = 0
    /\ stalls = 0

Init ==
    /\ OptimizerInit
    /\ MonitorInit
    /\ AppInit
    /\ frameMs = 10
    /\ buildings \in BuildingLists
    /\ maxDetailedBuildings \in MaxDetailedValues
    /\ cameraPosition \in CameraCoordinates
    /\ memoCameraPosition = cameraPosition
    /\ lodGroups = ComputeLodGroups(buildings, cameraPosition, maxDetailedBuildings)
    /\ performanceMetrics = [fps |-> INITIAL_FPS, frameTime |-> INITIAL_FRAME_TIME]
    /\ adaptiveLODOffset = AdaptiveLODOffset(performanceMetrics.fps)
    /\ elapsedTime = 0
    /\ updateThrottleRef = 0
    /\ lastCameraPosition = 0
    /\ transitionAge = HysteresisK
    /\ rendered = RenderTree(lodGroups, adaptiveLODOffset)
    /\ instanceMatrixUpdates = SetUpEffects(rendered)

\* The parent renders LODManager with a new building list: the memo's
\* dependencies changed, lodGroups is recomputed with the camera position
\* of that moment.
SetBuildings(bs) ==
    /\ buildings' = bs
    /\ memoCameraPosition' = cameraPosition
    /\ lodGroups' = ComputeLodGroups(bs, cameraPosition, maxDetailedBuildings)
    /\ rendered' = RenderTree(lodGroups', adaptiveLODOffset)
    /\ instanceMatrixUpdates' = SetUpEffects(rendered')
    /\ UNCHANGED <<cameraPosition, maxDetailedBuildings, frameVars, optimizerVars,
                   appVars,
                   monitorVars>>

\* The parent renders LODManager with another maxDetailedBuildings.
SetMaxDetailedBuildings(maxDetailed) ==
    /\ maxDetailedBuildings' = maxDetailed
    /\ memoCameraPosition' = cameraPosition
    /\ lodGroups' = ComputeLodGroups(buildings, cameraPosition, maxDetailed)
    /\ rendered' = RenderTree(lodGroups', adaptiveLODOffset)
    /\ instanceMatrixUpdates' = SetUpEffects(rendered')
    /\ UNCHANGED <<cameraPosition, buildings, frameVars, optimizerVars, monitorVars,
                   appVars>>

\* The camera rig moves the camera: camera.position is mutated in place.
MoveCamera(c) ==
    /\ cameraPosition' = c
    /\ instanceMatrixUpdates' = {}
    /\ UNCHANGED <<partitionVars, rendered, frameVars, optimizerVars, monitorVars,
                   appVars>>

Next ==
    \/ \E bs \in Reloads(buildings) : SetBuildings(bs)
    \/ \E m \in MaxDetailedValues : SetMaxDetailedBuildings(m)
    \/ \E c \in CameraCoordinates : MoveCamera(c)

Spec == Init /\ [][Next]_vars

----------------------------------------------------------------------------
(* Specification of the LODManager frame loop *)

\* the scenes the frame loop is run on
FrameSceneLists == {bs \in BuildingLists : Len(bs) = 1 /\ bs[1].position = 300}

InitFrame ==
    /\ Init
    /\ buildings \in FrameSceneLists
    /\ maxDetailedBuildings = MaxDetailedBound

\* The useFrame callback, and the render its state updates cause: the
\* dependencies of the lodGroups memo are unchanged (camera.position is the
\* same object), adaptiveLODOffset is recomputed from the new fps.
Frame(dt) ==
    /\ elapsedTime < MaxElapsedMs
    /\ elapsedTime' = elapsedTime + dt
    /\ performanceMetrics' =
          [fps |-> SmoothedFps(performanceMetrics.fps, FrameFps(dt)),
           frameTime |-> dt]
    /\ IF /\ elapsedTime' - updateThrottleRef > THROTTLE_MS
          /\ DistanceTo(cameraPosition, lastCameraPosition) > CAMERA_MOVED_DISTANCE
          THEN /\ lastCameraPosition' = cameraPosition
               /\ updateThrottleRef' = elapsedTime'
          ELSE UNCHANGED <<lastCameraPosition, updateThrottleRef>>
    /\ adaptiveLODOffset' = AdaptiveLODOffset(performanceMetrics'.fps)
    /\ transitionAge' = IF adaptiveLODOffset' # adaptiveLODOffset THEN 1
                        ELSE Min(transitionAge + 1, HysteresisK)
    /\ rendered' = RenderTree(lodGroups, adaptiveLODOffset')
    /\ instanceMatrixUpdates' = {}
    /\ UNCHANGED <<partitionVars, cameraPosition, optimizerVars, monitorVars,
                   appVars>>

NextFrame == \E dt \in FrameDeltas : Frame(dt)

SpecFrame == InitFrame /\ [][NextFrame]_vars

----------------------------------------------------------------------------
(* Specification of the LODManager frame loop under a moving camera *)

\* duration of the frames rendered while the camera rig moves the camera
CameraFrameDeltas == {60}

NextCamera ==
    \/ \E dt \in CameraFrameDeltas : Frame(dt)
    \/ \E c \in CameraCoordinates : MoveCamera(c)

\* useFrame callbacks run on every rendered frame, and rendering is continuous
SpecCamera ==
    /\ InitFrame
    /\ [][NextCamera]_vars
    /\ WF_vars(\E dt \in CameraFrameDeltas : Frame(dt))

----------------------------------------------------------------------------
(* Specification of the LODManager frame loop with degenerate frame times *)

\* frame durations of a clock that can return the same time twice
DegenerateFrameDeltas == {0, 20, 100}

NextDegenerate == \E dt \in DegenerateFrameDeltas : Frame(dt)

SpecDegenerate == InitFrame /\ [][NextDegenerate]_vars

----------------------------------------------------------------------------
(* Specification of the LODManager frame loop at sustained frame rates *)

\* frame durations of a scene rendered at 25 or at 50 frames per second
SustainedFrameDeltas == {20, 40}

NextSustained == \E dt \in SustainedFrameDeltas : Frame(dt)

SpecSustained == InitFrame /\ [][NextSustained]_vars

----------------------------------------------------------------------------
(* Specification of the instanced batches of a growing scene *)

\* x coordinates of the rows of a district: with the camera at 0 one row in
\* each instanced group
RowCoordinates == {300, 600, 1200}

\* The content source lists a district row by row, nearest row first; a
\* reload adds the next building, in the last row or in a farther one.
RowReloads(bs) ==
    IF Len(bs) >= MaxRowBuildings THEN {}
    ELSE {Append(bs, [id |-> Len(bs) + 1, position |-> p]) :
             p \in {q \in RowCoordinates :
                       Len(bs) = 0 \/ bs[Len(bs)].position <= q}}

InitBatches ==
    /\ Init
    /\ buildings = <<>>
    /\ cameraPosition = 0
    /\ maxDetailedBuildings = MaxDetailedBound

NextBatches == \E bs \in RowReloads(buildings) : SetBuildings(bs)

SpecBatches == InitBatches /\ [][NextBatches]_vars

----------------------------------------------------------------------------
(* Specification of the PerformanceOptimizer *)

\* the LODManager of an empty scene, before its first frame
LODIdle ==
    /\ buildings = <<>>
    /\ maxDetailedBuildings = MaxDetailedBound
    /\ cameraPosition = 0
    /\ memoCameraPosition = cameraPosition
    /\ lodGroups = ComputeLodGroups(buildings, cameraPosition, maxDetailedBuildings)
    /\ performanceMetrics = [fps |-> INITIAL_FPS, frameTime |-> INITIAL_FRAME_TIME]
    /\ adaptiveLODOffset = AdaptiveLODOffset(performanceMetrics.fps)
    /\ elapsedTime = 0
    /\ updateThrottleRef = 0
    /\ lastCameraPosition = 0
    /\ transitionAge = HysteresisK
    /\ rendered = RenderTree(lodGroups, adaptiveLODOffset)
    /\ instanceMatrixUpdates = SetUpEffects(rendered)

InitOptimizer ==
    /\ OptimizerInit
    /\ MonitorInit
    /\ AppInit
    /\ LODIdle

\* PerformanceOptimizer.updateMetrics, called once per rendered frame that
\* took dt milliseconds
UpdateMetrics(dt) ==
    /\ now < MaxOptimizerMs
    /\ frameCount = 0 \/ dt = frameMs
    /\ frameMs' = dt
    /\ now' = now + dt
    /\ IF now' >= lastTime + FPS_WINDOW_MS
          THEN /\ metrics' = [metrics EXCEPT
                     !.fps = RoundDiv((frameCount + 1) * 1000, now' - lastTime)]
               /\ fpsHistory' = PushHistory(fpsHistory, metrics'.fps)
               /\ frameCount' = 0
               /\ lastTime' = now'
          ELSE /\ frameCount' = frameCount + 1
               /\ UNCHANGED <<metrics, fpsHistory, lastTime>>
    /\ IF settings.adaptiveQuality
          THEN /\ settings' = AdaptQuality(settings, fpsHistory')
               /\ evaluationsBelow' =
                     IF PoorPerformance(fpsHistory', settings.targetFPS)
                        THEN Min(evaluationsBelow + 1, HysteresisK) ELSE 0
               /\ evaluationsAbove' =
                     IF GoodPerformance(fpsHistory', settings.targetFPS)
                        THEN Min(evaluationsAbove + 1, HysteresisK) ELSE 0
          ELSE UNCHANGED <<settings, evaluationsBelow, evaluationsAbove>>
    /\ UNCHANGED <<lodVars, monitorVars, appVars>>

\* PerformanceOptimizer.updateSettings
UpdateSettings(newSettings) ==
    /\ settings' = MergeSettings(settings, newSettings)
    /\ UNCHANGED <<metrics, frameCount, lastTime, fpsHistory, now, frameMs,
                   evaluationsBelow, evaluationsAbove, lodVars, monitorVars,
                   appVars>>

NextOptimizer ==
    \/ \E dt \in OptimizerFrameMs : UpdateMetrics(dt)
    \/ \E newSettings \in SettingsUpdates : UpdateSettings(newSettings)

SpecOptimizer == InitOptimizer /\ [][NextOptimizer]_vars

----------------------------------------------------------------------------
(* Specification of the PerformanceOptimizer under configuration updates *)

\* duration of the frames rendered while the settings are updated
ConfigFrameMs == {40}

NextConfig ==
    \/ \E dt \in ConfigFrameMs : UpdateMetrics(dt)
    \/ \E newSettings \in SettingsUpdates \cup DistanceUpdates :
          UpdateSettings(newSettings)

SpecConfig == InitOptimizer /\ [][NextConfig]_vars

----------------------------------------------------------------------------
(* Specification of usePerformanceMonitor *)

InitMonitor ==
    /\ MonitorInit
    /\ OptimizerInit
    /\ AppInit
    /\ frameMs = 10
    /\ LODIdle

\* The useFrame callback of usePerformanceMonitor, for a frame that comes dt
\* milliseconds after the previous one.
MonitorFrame(dt) ==
    /\ monitorNow < MaxMonitorMs
    /\ dt = LongFrameMs => stalls < MaxStalls
    /\ stalls' = IF dt = LongFrameMs THEN stalls + 1 ELSE stalls
    /\ monitorNow' = monitorNow + dt
    /\ frameTimes' = PushFrameTime(frameTimes, monitorNow')
    /\ IF Len(frameTimes') = FRAME_WINDOW
          THEN /\ monitorFps' = RoundDiv(1000 * (FRAME_WINDOW - 1), SumOfDeltas(frameTimes'))
               /\ targetQuality' = TargetQualityFor(SumOfDeltas(frameTimes'))
          ELSE UNCHANGED <<monitorFps, targetQuality>>
    /\ UNCHANGED <<lodVars, optimizerVars, appVars>>

NextMonitor == \E dt \in {RegularFrameMs, LongFrameMs} : MonitorFrame(dt)

SpecMonitor == InitMonitor /\ [][NextMonitor]_vars

----------------------------------------------------------------------------
(* Specification of useVancouverBuildings *)

\* The effect runs after the first render: loadBuildings starts and awaits
\* the first page.
StartLoadBuildings ==
    /\ loadBuildingsPc = "mounted"
    /\ vancouverBuildings' = [vancouverBuildings EXCEPT
           !.loading = TRUE, !.error = "null", !.usingFallback = FALSE]
    /\ allBuildingsLength' = 0
    /\ fetchOffset' = 0
    /\ loadBuildingsPc' = "fetching"
    /\ UNCHANGED <<fetchFailed, exceptLoader>>

\* The awaited page fails: catch and finally.
FetchFails ==
    /\ loadBuildingsPc = "fetching"
    /\ fetchFailed' = TRUE
    /\ vancouverBuildings' = FallbackState(vancouverBuildings)
    /\ loadBuildingsPc' = "done"
    /\ UNCHANGED <<allBuildingsLength, fetchOffset, exceptLoader>>

\* The awaited page arrives: the rest of the loop body, the loop test, and
\* when the loop ends the rest of loadBuildings.
FetchResponds(page) ==
    /\ loadBuildingsPc = "fetching"
    /\ page.records = CHUNK_SIZE => fetchOffset < MaxFullPages * CHUNK_SIZE
    /\ allBuildingsLength' = allBuildingsLength + page.usable
    /\ fetchOffset' = fetchOffset + CHUNK_SIZE
    /\ LET hasMore == page.records = CHUNK_SIZE
       IN IF hasMore /\ allBuildingsLength' < MAX_REAL_BUILDINGS
             THEN UNCHANGED <<vancouverBuildings, loadBuildingsPc>>
             ELSE /\ loadBuildingsPc' = "done"
                  /\ vancouverBuildings' =
                        IF allBuildingsLength' > 0
                           THEN LoadedState(vancouverBuildings, allBuildingsLength')
                           ELSE FallbackState(vancouverBuildings)
    /\ UNCHANGED <<fetchFailed, exceptLoader>>

\* The component is mounted again (a new page visit): fresh hook state.
RemountBuildings ==
    /\ loadBuildingsPc = "done"
    /\ vancouverBuildings' = InitialVancouverBuildings
    /\ loadBuildingsPc' = "mounted"
    /\ allBuildingsLength' = 0
    /\ fetchOffset' = 0
    /\ fetchFailed' = FALSE
    /\ UNCHANGED exceptLoader

NextLoader ==
    \/ StartLoadBuildings
    \/ FetchFails
    \/ \E page \in PageResults : FetchResponds(page)
    \/ RemountBuildings

SpecLoader == InitOptimizer /\ [][NextLoader]_vars

----------------------------------------------------------------------------
(* Specification of CinematicCamera *)

\* handleKeyPress, and the render its state updates cause before the next
\* frame (the frame callback then reads the new state)
KeyPress(key) ==
    /\ lastInput' = key
    /\ CASE key = " " ->
              /\ isAutoPlaying' = ~isAutoPlaying
              /\ UNCHANGED <<currentKeyframe, keyframeProgress>>
         [] key = "r" ->
              /\ currentKeyframe' = 0
              /\ keyframeProgress' = 0
              /\ UNCHANGED isAutoPlaying
         [] key = "arrowleft" ->
              /\ currentKeyframe' = ArrowLeftKeyframe(currentKeyframe)
              /\ keyframeProgress' = 0
              /\ UNCHANGED isAutoPlaying
         [] key = "arrowright" ->
              /\ currentKeyframe' = ArrowRightKeyframe(currentKeyframe)
              /\ keyframeProgress' = 0
              /\ UNCHANGED isAutoPlaying
    /\ UNCHANGED exceptCinematic

\* the useFrame callback of CinematicCamera for a frame of deltaMs
CinematicFrame(deltaMs) ==
    /\ lastInput' = "tick"
    /\ IF ~isAutoPlaying
          THEN UNCHANGED <<currentKeyframe, keyframeProgress>>
          ELSE LET newProgress == keyframeProgress + deltaMs
               IN IF newProgress >= DurationOf(currentKeyframe)
                     THEN /\ currentKeyframe' = (currentKeyframe + 1) % KeyframeCount
                          /\ keyframeProgress' = 0
                     ELSE /\ keyframeProgress' = newProgress
                          /\ UNCHANGED currentKeyframe
    /\ UNCHANGED <<isAutoPlaying, exceptCinematic>>

NextCinematic ==
    \/ \E key \in {" ", "r", "arrowleft", "arrowright"} : KeyPress(key)
    \/ \E deltaMs \in CinematicFrameMs : CinematicFrame(deltaMs)

SpecCinematic == InitOptimizer /\ [][NextCinematic]_vars

----------------------------------------------------------------------------
(* Specification of useAppStore *)

\* set(partial): the fields of partial replace those of the state
StoreSet(name, field, value) ==
    /\ appStore' = [appStore EXCEPT ![field] = value]
    /\ lastStoreAction' = [name |-> name, time |-> 0]
    /\ UNCHANGED exceptStore

setLoading(loading) == StoreSet("setLoading", "isLoading", loading)

setLoadingProgress(progress) ==
    StoreSet("setLoadingProgress", "loadingProgress", progress)

setLoadingMessage(message) ==
    StoreSet("setLoadingMessage", "loadingMessage", message)

selectBuilding(building) ==
    StoreSet("selectBuilding", "selectedBuilding", building)

setActiveCity(cityId) == StoreSet("setActiveCity", "activeCity", cityId)

toggleMenu == StoreSet("toggleMenu", "isMenuOpen", ~appStore.isMenuOpen)

setTimeOfDay(time) ==
    /\ appStore' = [appStore EXCEPT !.timeOfDay = ClampTimeOfDay(time)]
    /\ lastStoreAction' = [name |-> "setTimeOfDay", time |-> time]
    /\ UNCHANGED exceptStore

setWeatherCondition(condition) ==
    StoreSet("setWeatherCondition", "weatherCondition", condition)

NextStore ==
    \/ \E loading \in BOOLEAN : setLoading(loading)
    \/ \E progress \in ProgressInputs : setLoadingProgress(progress)
    \/ \E message \in LoadingMessages : setLoadingMessage(message)
    \/ \E building \in SelectableBuildings : selectBuilding(building)
    \/ \E cityId \in CityIds : setActiveCity(cityId)
    \/ toggleMenu
    \/ \E time \in TimeInputs : setTimeOfDay(time)
    \/ \E condition \in WeatherConditions : setWeatherCondition(condition)

SpecStore == InitOptimizer /\ [][NextStore]_vars

----------------------------------------------------------------------------
(* Specification of PerformanceOptimizer.optimizeObjects *)

\* the partial settings passed to updateSettings between two calls
ObjectSettingsUpdates == {[enableLOD |-> TRUE], [enableLOD |-> FALSE]}

\* the scene moves object i (the camera stays at the origin)
MoveObject(i, x, seen) ==
    /\ sceneObjects' = [sceneObjects EXCEPT ![i].position = x * DistanceScale,
                                            ![i].inFrustum = seen]
    /\ lastObjectAction' = "move"
    /\ UNCHANGED <<returnedObjects, exceptObjects>>

\* PerformanceOptimizer.optimizeObjects(objects, camera), camera at cameraPos
OptimizeObjects(cameraPos) ==
    /\ sceneObjects' = [i \in DOMAIN sceneObjects |->
                           OptimizeObject(sceneObjects[i], cameraPos, settings).object]
    /\ returnedObjects' = PushedIndices(sceneObjects, 1, cameraPos, settings)
    /\ metrics' = [metrics EXCEPT !.visibleObjects = Len(returnedObjects')]
    /\ lastObjectAction' = "optimizeObjects"
    /\ UNCHANGED <<settings, frameCount, lastTime, fpsHistory, now, frameMs,
                   evaluationsBelow, evaluationsAbove, lodVars, monitorVars,
                   appExceptObjects>>

\* updateSettings between two calls of optimizeObjects
UpdateObjectSettings(newSettings) ==
    /\ settings' = MergeSettings(settings, newSettings)
    /\ lastObjectAction' = "updateSettings"
    /\ UNCHANGED <<metrics, frameCount, lastTime, fpsHistory, now, frameMs,
                   evaluationsBelow, evaluationsAbove, lodVars, monitorVars,
                   appExceptObjects, sceneObjects, returnedObjects>>

NextObjects ==
    \/ \E i \in 1..MaxObjects, x \in ObjectCoordinates, seen \in BOOLEAN :
          MoveObject(i, x, seen)
    \/ OptimizeObjects(0)
    \/ \E newSettings \in ObjectSettingsUpdates : UpdateObjectSettings(newSettings)

SpecObjects == InitOptimizer /\ [][NextObjects]_vars

----------------------------------------------------------------------------
(* Specification of useLoadingManager *)

\* startLoading, simulateLoading included
StartLoadingEffects ==
    /\ appStore' = [appStore EXCEPT !.isLoading = TRUE,
                                    !.loadingProgress = 0,
                                    !.loadingMessage = LOADING_STEPS[1].name]
    /\ lastStoreAction' = [name |-> "setLoadingMessage", time |-> 0]
    /\ currentStep' = 0
    /\ currentProgress' = 0
    /\ managerTimer' = "processStep"

\* a component using the hook mounts: the effect of useLoadingManager
MountLoadingManager ==
    /\ ~managerMounted
    /\ managerMounted' = TRUE
    /\ IF ~appStore.isLoading
          THEN StartLoadingEffects
          ELSE UNCHANGED <<storeVars, managerTimer, currentStep, currentProgress>>
    /\ UNCHANGED exceptManager

\* the component unmounts (the hook has no cleanup); taken between two
\* loading sequences
UnmountLoadingManager ==
    /\ managerMounted
    /\ managerTimer = "none"
    /\ ~appStore.isLoading
    /\ managerMounted' = FALSE
    /\ UNCHANGED <<storeVars, managerTimer, currentStep, currentProgress,
                   exceptManager>>

\* the component calls the startLoading the hook returns; taken while no
\* sequence is running
startLoading ==
    /\ managerMounted
    /\ managerTimer = "none"
    /\ StartLoadingEffects
    /\ UNCHANGED <<managerMounted, exceptManager>>

\* the timer of processStep fires
processStep ==
    /\ managerTimer = "processStep"
    /\ IF currentStep >= Len(LOADING_STEPS)
          THEN \* finishLoading
               /\ appStore' = [appStore EXCEPT
                                  !.loadingProgress = 100 * ProgressScale,
                                  !.loadingMessage = "Complete!"]
               /\ managerTimer' = "finish"
          ELSE /\ appStore' = [appStore EXCEPT
                                  !.loadingMessage = LOADING_STEPS[currentStep + 1].name]
               /\ managerTimer' = "interval"
    /\ lastStoreAction' = [name |-> "setLoadingMessage", time |-> 0]
    /\ UNCHANGED <<managerMounted, currentStep, currentProgress, exceptManager>>

\* the step interval fires
stepInterval ==
    /\ managerTimer = "interval"
    /\ currentProgress' = currentProgress + ProgressIncrement(currentStep)
    /\ appStore' = [appStore EXCEPT
                       !.loadingProgress = Min(currentProgress', 100 * ProgressScale)]
    /\ lastStoreAction' = [name |-> "setLoadingProgress", time |-> 0]
    /\ IF currentProgress' >= StepThreshold(currentStep)
          THEN /\ currentStep' = currentStep + 1
               /\ managerTimer' = "processStep"
          ELSE UNCHANGED <<currentStep, managerTimer>>
    /\ UNCHANGED <<managerMounted, exceptManager>>

\* the timer of finishLoading fires
finishTimer ==
    /\ managerTimer = "finish"
    /\ appStore' = [appStore EXCEPT !.isLoading = FALSE]
    /\ lastStoreAction' = [name |-> "setLoading", time |-> 0]
    /\ managerTimer' = "none"
    /\ UNCHANGED <<managerMounted, currentStep, currentProgress, exceptManager>>

ManagerTimers == processStep \/ stepInterval \/ finishTimer

NextLoading ==
    \/ MountLoadingManager
    \/ UnmountLoadingManager
    \/ startLoading
    \/ processStep
    \/ stepInterval
    \/ finishTimer

\* the effect runs after the mount, and a pending timer fires
SpecLoading ==
    /\ InitOptimizer
    /\ [][NextLoading]_vars
    /\ WF_vars(MountLoadingManager)
    /\ WF_vars(ManagerTimers)

----------------------------------------------------------------------------
(* Specification of throttle *)

\* the throttled function is called with args
ThrottledCall(args) ==
    /\ Len(executions) < MaxCalls
    /\ LET currentTime == throttleNow
       IN IF currentTime - lastExecTime > ThrottleDelay
             THEN /\ executions' = Append(executions,
                                          [time |-> currentTime, args |-> args])
                  /\ lastExecTime' = currentTime
                  /\ UNCHANGED timeoutId
             ELSE \* clearTimeout(timeoutId), then setTimeout
                  /\ timeoutId' =
                        [pending |-> TRUE,
                         due |-> currentTime
                                   + (ThrottleDelay - (currentTime - lastExecTime)),
                         args |-> args]
                  /\ UNCHANGED <<executions, lastExecTime>>
    /\ UNCHANGED <<throttleNow, exceptThrottle>>

\* the timer of timeoutId fires, at its due time or later
TimeoutFires ==
    /\ timeoutId.pending
    /\ throttleNow >= timeoutId.due
    /\ executions' = Append(executions,
                            [time |-> throttleNow, args |-> timeoutId.args])
    /\ lastExecTime' = throttleNow
    /\ timeoutId' = NoTimeout
    /\ UNCHANGED <<throttleNow, exceptThrottle>>

\* a millisecond passes
AdvanceTime ==
    /\ throttleNow < ThrottleStart + MaxThrottleMs
    /\ throttleNow' = throttleNow + 1
    /\ UNCHANGED <<lastExecTime, timeoutId, executions, exceptThrottle>>

NextThrottle ==
    \/ \E args \in 1..MaxCalls : ThrottledCall(args)
    \/ TimeoutFires
    \/ AdvanceTime

SpecThrottle == InitOptimizer /\ [][NextThrottle]_vars

----------------------------------------------------------------------------
(* Specification of useVancouverGeoData *)

\* the effect runs with options: on mount, or after a render with options
\* that differ from those of the latest load (the cleanup of the previous
\* effect runs first); loadGeoData runs up to its first await
GeoEffect(options) ==
    /\ Len(geoLoads) < MaxLoads
    /\ geoMounted => geoLoads[Len(geoLoads)].options # options
    /\ geoMounted' = TRUE
    /\ geoLoads' = Append(Cleanup(geoLoads),
                          [pc |-> "awaitBuildings", isCancelled |-> FALSE,
                           options |-> options])
    /\ geoData' = [(IF geoMounted THEN geoData ELSE InitialGeoData) EXCEPT
                      !.loading = TRUE, !.error = "null", !.progress = 10]
    /\ UNCHANGED exceptGeo

\* the component unmounts: the cleanup of the effect
GeoUnmount ==
    /\ geoMounted
    /\ geoMounted' = FALSE
    /\ geoLoads' = Cleanup(geoLoads)
    /\ UNCHANGED <<geoData, exceptGeo>>

\* loadVancouverBuildingsFromGeoJSON of load id resolves
BuildingsResolve(id) ==
    /\ geoLoads[id].pc = "awaitBuildings"
    /\ IF IsCancelled(geoLoads[id])
          THEN /\ geoLoads' = [geoLoads EXCEPT ![id].pc = "done"]
               /\ UNCHANGED geoData
          ELSE IF HasExtras(geoLoads[id].options)
                  THEN /\ geoData' = [geoData EXCEPT !.buildings = id,
                                                     !.progress = 70]
                       /\ geoLoads' = [geoLoads EXCEPT ![id].pc = "awaitExtras"]
                  ELSE /\ geoData' = [geoData EXCEPT !.buildings = id,
                                                     !.progress = 100,
                                                     !.loading = FALSE]
                       /\ geoLoads' = [geoLoads EXCEPT ![id].pc = "done"]
    /\ UNCHANGED <<geoMounted, exceptGeo>>

\* loadVancouverBuildingsFromGeoJSON of load id rejects: the catch block
BuildingsReject(id) ==
    /\ geoLoads[id].pc = "awaitBuildings"
    /\ geoLoads' = [geoLoads EXCEPT ![id].pc = "done"]
    /\ IF ~IsCancelled(geoLoads[id])
          THEN geoData' = [geoData EXCEPT !.error = "Failed to load geo data",
                                          !.loading = FALSE]
          ELSE UNCHANGED geoData
    /\ UNCHANGED <<geoMounted, exceptGeo>>

\* Promise.allSettled of load id resolves, the datasets of fulfilled fulfilled
ExtrasSettle(id, fulfilled) ==
    /\ geoLoads[id].pc = "awaitExtras"
    /\ geoLoads' = [geoLoads EXCEPT ![id].pc = "done"]
    /\ IF IsCancelled(geoLoads[id])
          THEN UNCHANGED geoData
          ELSE geoData' = [geoData EXCEPT
                              !.parks = IF "parks" \in fulfilled THEN id ELSE 0,
                              !.water = IF "water" \in fulfilled THEN id ELSE 0,
                              !.zoning = IF "zoning" \in fulfilled THEN id ELSE 0,
                              !.progress = 100,
                              !.loading = FALSE]
    /\ UNCHANGED <<geoMounted, exceptGeo>>

\* a promise a load awaits settles
GeoSettles ==
    \E id \in DOMAIN geoLoads :
        \/ BuildingsResolve(id)
        \/ BuildingsReject(id)
        \/ \E fulfilled \in SUBSET ExtrasOf(geoLoads[id].options) :
              ExtrasSettle(id, fulfilled)

NextGeo ==
    \/ \E options \in GeoOptions : GeoEffect(options)
    \/ GeoUnmount
    \/ \E id \in DOMAIN geoLoads : BuildingsResolve(id)
    \/ \E id \in DOMAIN geoLoads : BuildingsReject(id)
    \/ \E id \in DOMAIN geoLoads :
          \E fulfilled \in SUBSET ExtrasOf(geoLoads[id].options) :
             ExtrasSettle(id, fulfilled)

\* every awaited promise settles
SpecGeo == InitOptimizer /\ [][NextGeo]_vars /\ WF_vars(GeoSettles)

----------------------------------------------------------------------------
(* Specification of loadVancouverBuildingsFromGeoJSON *)

\* loadVancouverBuildingsFromGeoJSON(maxB) on a dataset of n features, of
\* whose sampled features parseBuilding returns null for failures
LoadFromGeoJSON(n, maxB, failures) ==
    /\ failures <= Cardinality(SampledFeatures(n, maxB))
    /\ geoJsonLoad' =
          [status |-> "resolved", features |-> n, maxBuildings |-> maxB,
           sampledFeatures |-> Cardinality(SampledFeatures(n, maxB)),
           buildings |-> Cardinality(SampledFeatures(n, maxB)) - failures]
    /\ UNCHANGED exceptGeoJson

\* the response is not ok, or its text is no JSON: the call rejects
LoadFromGeoJSONFails(maxB) ==
    /\ geoJsonLoad' = [NoGeoJsonLoad EXCEPT !.status = "rejected",
                                            !.maxBuildings = maxB]
    /\ UNCHANGED exceptGeoJson

NextGeoJson ==
    \/ \E n \in 0..MaxFeatures, maxB \in 1..MaxSampleCap,
          failures \in 0..MaxParseFailures : LoadFromGeoJSON(n, maxB, failures)
    \/ \E maxB \in 1..MaxSampleCap : LoadFromGeoJSONFails(maxB)

SpecGeoJson == InitOptimizer /\ [][NextGeoJson]_vars

----------------------------------------------------------------------------
(* Properties of the partition *)

BuildingIndices == 1..Len(buildings)

\* distance of the i-th building as the last partition pass computed it
PassDistance(i) == DistanceTo(buildings[i].position, memoCameraPosition)

\* the places <<level, index>> of lodGroups that hold a building id
Placements(id) ==
    {p \in UNION {{<<l, k>> : k \in 1..Len(lodGroups[l])} : l \in Levels} :
        lodGroups[p[1]][p[2]].id = id}

InGroup(i, l) == \E k \in 1..Len(lodGroups[l]) : lodGroups[l][k].id = buildings[i].id

InNoGroup(i) == \A l \in Levels : ~InGroup(i, l)

\* the culled bucket: buildings beyond VERY_LOW distance (LODManager.tsx:78)
Culled(i) == PassDistance(i) >= VERY_LOW

\* C1. Partition completeness: after a partition pass every building of the
\* list is in exactly one LOD group or is culled; no id is in two groups,
\* none is in neither a group nor the culled bucket, and the groups hold
\* buildings of the list only.
C1_PartitionCompleteness ==
    /\ \A i \in BuildingIndices :
          Cardinality(Placements(buildings[i].id)) = IF Culled(i) THEN 0 ELSE 1
    /\ \A l \in Levels : \A k \in 1..Len(lodGroups[l]) :
          \E i \in BuildingIndices : buildings[i].id = lodGroups[l][k].id

C1_Witness ==
    /\ \E i \in BuildingIndices : Culled(i)
    /\ \E i, j \in BuildingIndices :
          /\ PassDistance(i) < ULTRA_HIGH /\ PassDistance(j) < ULTRA_HIGH
          /\ InGroup(i, 0) /\ InGroup(j, 1)

\* the number of buildings group 0 accepts: pushes stop once
\* length < maxDetailedBuildings / 2 fails
Capacity0 == (maxDetailedBuildings + 1) \div 2
Capacity1 == maxDetailedBuildings

\* a is a nearer candidate than b: nearer, or as near with the smaller id
Nearer(a, b) ==
    \/ PassDistance(a) < PassDistance(b)
    \/ PassDistance(a) = PassDistance(b) /\ buildings[a].id < buildings[b].id

\* C2. Capacity respect: a capacity-limited group holds at most its capacity,
\* and it holds the nearest candidates (by distance, ties broken by id) among
\* the buildings eligible for it: no eligible building nearer than a member
\* is left out.
C2_CapacityRespect ==
    /\ Len(lodGroups[0]) <= Capacity0
    /\ Len(lodGroups[1]) <= Capacity1
    /\ \A a, b \in BuildingIndices :
          (PassDistance(a) < ULTRA_HIGH /\ InGroup(b, 0) /\ Nearer(a, b))
              => InGroup(a, 0)
    /\ \A a, b \in BuildingIndices :
          (PassDistance(a) < HIGH /\ ~InGroup(a, 0) /\ InGroup(b, 1) /\ Nearer(a, b))
              => InGroup(a, 1)

\* C3. Overflow spill: a building in range of a capacity-limited group that
\* is not in it found the group full and is in the next group in level
\* order (and in the one after if that one was full too); no building nearer
\* than the last threshold is dropped.
C3_OverflowSpill ==
    \A i \in BuildingIndices :
        /\ (PassDistance(i) < ULTRA_HIGH /\ ~InGroup(i, 0)) =>
              /\ Len(lodGroups[0]) >= Capacity0
              /\ \/ InGroup(i, 1)
                 \/ Len(lodGroups[1]) >= Capacity1 /\ InGroup(i, 2)
        /\ (ULTRA_HIGH <= PassDistance(i) /\ PassDistance(i) < HIGH /\ ~InGroup(i, 1)) =>
              /\ Len(lodGroups[1]) >= Capacity1
              /\ InGroup(i, 2)
        /\ PassDistance(i) < VERY_LOW => ~InNoGroup(i)

C3_Witness ==
    \E i, j \in BuildingIndices :
        /\ PassDistance(i) < ULTRA_HIGH /\ InGroup(i, 1)
        /\ PassDistance(j) < ULTRA_HIGH /\ InGroup(j, 2)
        /\ Len(lodGroups[0]) > 0

\* [previousTier.maxDistance, tier.maxDistance) of the instanced groups
LowerBound(l) == IF l = 2 THEN HIGH ELSE IF l = 3 THEN MEDIUM ELSE LOW
UpperBound(l) == IF l = 2 THEN MEDIUM ELSE IF l = 3 THEN LOW ELSE VERY_LOW
InstancedLevels == 2..4

InRange(i, l) == LowerBound(l) <= PassDistance(i) /\ PassDistance(i) < UpperBound(l)

ScenarioBuildings ==
    <<[id |-> 1, position |-> 10], [id |-> 2, position |-> 50],
      [id |-> 3, position |-> 200], [id |-> 4, position |-> 400],
      [id |-> 5, position |-> 1200]>>

ScenarioGroups == ComputeLodGroups(ScenarioBuildings, 0, 4)

IdsOf(group) == [k \in 1..Len(group) |-> group[k].id]

IdSetOf(group) == {group[k].id : k \in 1..Len(group)}

RenderedDetailedIds ==
    {rendered.ultraHigh[k].id : k \in 1..Len(rendered.ultraHigh)}
        \cup {rendered.high[k].id : k \in 1..Len(rendered.high)}

InstanceIds(element) ==
    UNION {{element.categories[key][k] : k \in 1..Len(element.categories[key])}
           : key \in DOMAIN element.categories}

RenderedInstanceIds ==
    UNION {InstanceIds(e) : e \in rendered.medium \cup rendered.low \cup rendered.veryLow}

\* C5. Culling: a building whose distance at the partition pass is not below
\* VERY_LOW (equal counts as beyond) is in no group, in no instanced mesh and
\* has no individual element, also after the camera has come nearer, as long
\* as no later pass has run.
C5_Culling ==
    \A i \in BuildingIndices :
        Culled(i) =>
            /\ InNoGroup(i)
            /\ buildings[i].id \notin RenderedDetailedIds
            /\ buildings[i].id \notin RenderedInstanceIds

C5_Witness ==
    \E i, j \in BuildingIndices :
        /\ PassDistance(i) = VERY_LOW
        /\ DistanceTo(buildings[i].position, cameraPosition) < VERY_LOW
        /\ buildings[j].id \in RenderedInstanceIds

\* group ids of a partition pass over another listing of the same buildings
SameBuildings(bs) ==
    {bs[i] : i \in 1..Len(bs)} = {buildings[i] : i \in BuildingIndices}

\* C6. Determinism: a partition pass over the same buildings, the same
\* viewer position and the same maxDetailedBuildings gives the same groups
\* whatever the order of the list; among buildings at equal distance the
\* smaller id gets the better group.
C6_Determinism ==
    /\ \A bs \in BuildingLists :
          SameBuildings(bs) =>
              LET other == ComputeLodGroups(bs, memoCameraPosition, maxDetailedBuildings)
              IN \A l \in Levels : IdSetOf(other[l]) = IdSetOf(lodGroups[l])
    /\ \A a, b \in BuildingIndices :
          (PassDistance(a) = PassDistance(b) /\ buildings[a].id < buildings[b].id) =>
              \A l \in Levels : InGroup(b, l) => \E m \in 0..l : InGroup(a, m)

----------------------------------------------------------------------------
(* Properties of the adaptive LOD offset *)

\* C7. Hysteresis: the adaptive quality state changes at most once in any
\* window of K consecutive evaluations: it does not change again before K
\* evaluations have passed since its previous change.
C7_Hysteresis ==
    [][adaptiveLODOffset' # adaptiveLODOffset => transitionAge >= HysteresisK]_vars

\* C8. Single-step transitions: one evaluation of the adaptive quality
\* controller changes the quality state by at most one level.
C8_SingleStep ==
    [][Abs(QualityRank(targetQuality') - QualityRank(targetQuality)) <= 1]_vars

\* the same for the adaptive LOD offset of LODManager
SingleStepLODOffset ==
    [][Abs(adaptiveLODOffset' - adaptiveLODOffset) <= 1]_vars

----------------------------------------------------------------------------
(* Properties of PerformanceOptimizer.adaptQuality *)

QualityUnchanged ==
    /\ settings'.lodDistances = settings.lodDistances
    /\ settings'.maxRenderDistance = settings.maxRenderDistance

\* C9. Downgrade rule: the quality state drops only when the smoothed FPS has
\* been below targetFPS * 0.8 for K consecutive evaluations; a run of such
\* evaluations shorter than K leaves the state unchanged.
C9_DowngradeRule ==
    [][(0 < evaluationsBelow' /\ evaluationsBelow' < HysteresisK)
           => QualityUnchanged]_vars

\* C10. Upgrade rule: the quality state rises only when the smoothed FPS has
\* been above targetFPS * 1.1 for K consecutive evaluations.
C10_UpgradeRule ==
    [][settings'.lodDistances.high > settings.lodDistances.high
           => evaluationsAbove' >= HysteresisK]_vars

----------------------------------------------------------------------------
(* Properties of the partition under a moving camera *)

\* the camera is further than the movement threshold from the position the
\* published lodGroups were computed for
MovedSincePartition ==
    DistanceTo(cameraPosition, memoCameraPosition) > CAMERA_MOVED_DISTANCE

\* the throttle interval has elapsed at the frame that ends at time t
IntervalElapsed(t) == t - updateThrottleRef > THROTTLE_MS

FrameStep == elapsedTime' # elapsedTime

\* C11: a frame on which the camera has moved more than the threshold since
\* the last partition re-runs the partition for the current camera position
\* (the movement alone is sufficient), and a frame on which the camera has
\* not moved and the interval has not elapsed leaves the assignment as it is.
C11_PartitionThrottling ==
    [][FrameStep =>
          IF MovedSincePartition
             THEN /\ memoCameraPosition' = cameraPosition
                  /\ lodGroups' = ComputeLodGroups(buildings, cameraPosition,
                                                   maxDetailedBuildings)
             ELSE ~IntervalElapsed(elapsedTime') =>
                      UNCHANGED <<lodGroups, memoCameraPosition>>]_vars

\* no frame computes lodGroups, however long the loop runs
FramesKeepPartition ==
    [][FrameStep => UNCHANGED <<lodGroups, memoCameraPosition>>]_vars

\* the last time at which a camera move still leaves five throttle
\* intervals of frames
FreshnessDeadline == MaxElapsedMs - 5 * THROTTLE_MS

----------------------------------------------------------------------------
(* Properties of the instanced batches *)

\* the tiers of LOD_DISTANCES
TierCount == Cardinality(Levels)

IdsIn(instances) == {instances[k] : k \in 1..Len(instances)}

\* C13. Batch bound: the number of instanced meshes of the rendered tree is at
\* most the number of tiers times the number of material categories.
C13_BatchBound ==
    Cardinality(Batches(rendered)) <= TierCount * Cardinality(MaterialTypes)

\* C14. Dirty minimality: an instanced mesh that has the same set of member
\* ids before and after a step is not set up again by that step.
C14_DirtyMinimality ==
    [][\A before \in Batches(rendered), after \in Batches(rendered') :
          (/\ before.level = after.level
           /\ before.key = after.key
           /\ IdsIn(before.instances) = IdsIn(after.instances))
              => <<after.level, after.key>> \notin instanceMatrixUpdates']_vars

\* the published assignment has a building of this material, or of this
\* category, in the group
AssignedMaterial(l, material) ==
    \E k \in 1..Len(lodGroups[l]) : BuildingMaterial(lodGroups[l][k].id) = material

AssignedCategory(l, key) ==
    \E k \in 1..Len(lodGroups[l]) : CategoryKey(lodGroups[l][k]) = key

\* C15. Batch existence: the rendered tree has an instanced mesh for an
\* instanced group and a material exactly when the group holds a building of
\* that material (and the same for a group and a category key), and every
\* instanced mesh of the tree has at least one instance.
C15_BatchExistence ==
    /\ \A l \in InstancedLevels, material \in MaterialTypes :
          (\E b \in Batches(rendered) : b.level = l /\ b.key[2] = material)
              <=> AssignedMaterial(l, material)
    /\ \A l \in InstancedLevels, key \in HeightCategories \X MaterialTypes :
          (\E b \in Batches(rendered) : b.level = l /\ b.key = key)
              <=> AssignedCategory(l, key)
    /\ \A l \in Levels \ InstancedLevels : \A b \in Batches(rendered) : b.level # l
    /\ \A b \in Batches(rendered) : Len(b.instances) > 0

\* an update has run, one instanced group has an instanced mesh of one
\* building, and a material of the scene has no building in another
\* instanced group
C15_Witness ==
    /\ instanceMatrixUpdates # {}
    /\ \E b \in Batches(rendered) : Len(b.instances) = 1
    /\ \E l \in InstancedLevels, i \in BuildingIndices :
          /\ ~AssignedMaterial(l, BuildingMaterial(buildings[i].id))
          /\ \A b \in Batches(rendered) : b.level # l

\* number of individual elements and of instanced-mesh instances of a building
HandleCount(id) ==
    Cardinality({k \in 1..Len(rendered.ultraHigh) : rendered.ultraHigh[k].id = id})
        + Cardinality({k \in 1..Len(rendered.high) : rendered.high[k].id = id})

InstanceCount(id) ==
    Cardinality({<<b, k>> \in Batches(rendered) \X BuildingIndices :
                    k <= Len(b.instances) /\ b.instances[k] = id})

\* C16. Hero path: a building of group 0 or 1 has exactly one individual
\* element and is an instance of no instanced mesh; a building of group 2, 3
\* or 4 is an instance of exactly one instanced mesh, once, and has no
\* individual element.
C16_HeroPath ==
    \A l \in Levels : \A k \in 1..Len(lodGroups[l]) :
        LET id == lodGroups[l][k].id
        IN IF l \in InstancedLevels
              THEN InstanceCount(id) = 1 /\ HandleCount(id) = 0
              ELSE HandleCount(id) = 1 /\ InstanceCount(id) = 0

\* buildings in group 0, in group 1 and in an instanced group at once
C16_Witness ==
    /\ Len(lodGroups[0]) > 0
    /\ Len(lodGroups[1]) > 0
    /\ \E l \in InstancedLevels : Len(lodGroups[l]) > 0

----------------------------------------------------------------------------
(* Properties of the configuration *)

\* the LOD distances are positive and strictly increasing
WellFormedDistances(lodDistances) ==
    /\ 0 < lodDistances.high
    /\ lodDistances.high < lodDistances.medium
    /\ lodDistances.medium < lodDistances.low

\* C17. Configuration rejection: the settings in effect never hold LOD
\* distances that are not strictly increasing: an update that supplies such
\* distances is rejected and the settings stay as they were.
C17_ConfigurationRejection == WellFormedDistances(settings.lodDistances)

----------------------------------------------------------------------------
(* Properties of the FPS sampling *)

\* C18. Degenerate frame duration: the smoothed FPS is a finite number after
\* every frame, also after a frame of duration zero.
C18_DegenerateFrameDuration == performanceMetrics.fps # Infinity

\* once infinite, the smoothed FPS stays infinite whatever frames follow
InfinityAbsorbs ==
    [][performanceMetrics.fps = Infinity => performanceMetrics'.fps = Infinity]_vars

\* adaptQuality runs in this step on an average that is NaN: the history it
\* reads is empty, the average is 0 / 0
EvaluatesNaN ==
    /\ now' # now
    /\ settings.adaptiveQuality
    /\ fpsHistory' = <<>>

\* C19. Malformed FPS input: an evaluation of adaptQuality whose average FPS
\* is NaN changes the settings exactly as an evaluation whose average is
\* below the downgrade threshold does (here: an average of 0).
C19_MalformedFps ==
    [][EvaluatesNaN => settings' = AdaptQuality(settings, <<0>>)]_vars

\* a frame that does not end an FPS interval: updateMetrics takes no new FPS
\* sample in this step
FrameWithinInterval == now' # now /\ lastTime' = lastTime

\* C20. Evaluation rate: a frame that falls between two boundaries of the
\* one-second FPS interval leaves the LOD distances and the render distance
\* as they are.
C20_EvaluationRate ==
    [][FrameWithinInterval =>
          /\ settings'.lodDistances = settings.lodDistances
          /\ settings'.maxRenderDistance = settings.maxRenderDistance]_vars

\* this step is a frame of the same duration as the frame before it, and it
\* leaves the smoothed FPS where it was: every further frame of that
\* duration leaves it there too
StalledAtSustainedRate ==
    /\ FrameStep
    /\ performanceMetrics'.frameTime = performanceMetrics.frameTime
    /\ performanceMetrics'.fps = performanceMetrics.fps

\* C21. Sampler convergence: under a sustained frame rate the smoothed FPS
\* comes to rest only at that rate, so that it is on the same side of the
\* quality thresholds as the rate.
C21_SamplerConvergence ==
    [][StalledAtSustainedRate =>
          /\ performanceMetrics'.fps = FrameFps(performanceMetrics'.frameTime)
          /\ AdaptiveLODOffset(performanceMetrics'.fps)
                 = AdaptiveLODOffset(FrameFps(performanceMetrics'.frameTime))]_vars

----------------------------------------------------------------------------
(* Properties of useVancouverBuildings *)

\* C22. Data fallback: when loadBuildings has finished, loading is false and
\* the building list is not empty; if a page failed or no usable building was
\* received, usingFallback is true and the list is the generated one.
C22_DataFallback ==
    loadBuildingsPc = "done" =>
        /\ ~vancouverBuildings.loading
        /\ vancouverBuildings.buildings.count > 0
        /\ (fetchFailed \/ allBuildingsLength = 0) =>
              /\ vancouverBuildings.usingFallback
              /\ vancouverBuildings.buildings.source = "fallback"
              /\ vancouverBuildings.buildings.count = FallbackBuildingCount

\* a load that failed at a later page, after usable buildings had arrived
C22_Witness ==
    /\ loadBuildingsPc = "done"
    /\ fetchFailed
    /\ allBuildingsLength > 0
    /\ vancouverBuildings.usingFallback

----------------------------------------------------------------------------
(* Properties of CinematicCamera *)

ValidKeyframe(k) == k \in 0..(KeyframeCount - 1)

\* C23. Camera keyframe navigation: after every key press and frame tick
\* currentKeyframe is an index of the keyframe list; ArrowLeft and ArrowRight
\* move by one keyframe, staying at the first and at the last, and set the
\* progress to 0; R sets keyframe 0 and progress 0; Space toggles auto-play
\* only; a frame tick changes nothing while auto-play is off.
C23_KeyframeNavigation ==
    [][/\ ValidKeyframe(currentKeyframe')
       /\ lastInput' = "arrowleft" =>
             /\ currentKeyframe' = IF currentKeyframe = 0 THEN 0
                                   ELSE currentKeyframe - 1
             /\ keyframeProgress' = 0
             /\ isAutoPlaying' = isAutoPlaying
       /\ lastInput' = "arrowright" =>
             /\ currentKeyframe' = IF currentKeyframe = KeyframeCount - 1
                                      THEN currentKeyframe
                                      ELSE currentKeyframe + 1
             /\ keyframeProgress' = 0
             /\ isAutoPlaying' = isAutoPlaying
       /\ lastInput' = "r" =>
             /\ currentKeyframe' = 0
             /\ keyframeProgress' = 0
             /\ isAutoPlaying' = isAutoPlaying
       /\ lastInput' = " " =>
             /\ isAutoPlaying' = ~isAutoPlaying
             /\ currentKeyframe' = currentKeyframe
             /\ keyframeProgress' = keyframeProgress
       /\ (lastInput' = "tick" /\ ~isAutoPlaying) =>
             /\ currentKeyframe' = currentKeyframe
             /\ keyframeProgress' = keyframeProgress]_vars

\* ArrowRight pressed while the sequence, under auto-play, is at its last
\* keyframe
C23_Witness ==
    /\ lastInput = "arrowright"
    /\ currentKeyframe = KeyframeCount - 1
    /\ isAutoPlaying

----------------------------------------------------------------------------
(* Properties of useAppStore *)

\* the fields of the store other than timeOfDay
OtherStoreFields == (DOMAIN InitialAppStore) \ {"timeOfDay"}

----------------------------------------------------------------------------
(* Properties of PerformanceOptimizer.optimizeObjects *)

\* the indices held by a list of indices
IndexSet(q) == {q[k] : k \in DOMAIN q}

\* C25: after a call of optimizeObjects with LOD enabled, an object is marked
\* visible and is in the returned list if and only if its distance is at most
\* maxRenderDistance and at most lodDistances.low, and metrics.visibleObjects
\* is the number of objects marked visible.
C25_VisibleIffWithinLow ==
    [][(lastObjectAction' = "optimizeObjects" /\ settings.enableLOD) =>
          /\ \A i \in DOMAIN sceneObjects' :
                LET distance == Abs(0 - sceneObjects'[i].position)
                    within == /\ distance <= settings.maxRenderDistance
                              /\ distance <= settings.lodDistances.low
                IN /\ sceneObjects'[i].visible <=> within
                   /\ i \in IndexSet(returnedObjects') <=> within
          /\ metrics'.visibleObjects =
                Cardinality({i \in DOMAIN sceneObjects' : sceneObjects'[i].visible})
      ]_vars

----------------------------------------------------------------------------
(* Properties of the direction of PerformanceOptimizer.adaptQuality *)

\* C26: an adjustment adaptQuality takes on the good-performance branch
\* (average FPS above targetFPS * 1.1) never decreases lodDistances.high,
\* lodDistances.medium or maxRenderDistance, and one taken on the
\* poor-performance branch never increases any of them.
C26_AdaptDirection ==
    [][(settings.adaptiveQuality /\ now' # now) =>
          /\ GoodPerformance(fpsHistory', settings.targetFPS) =>
                /\ settings'.lodDistances.high >= settings.lodDistances.high
                /\ settings'.lodDistances.medium >= settings.lodDistances.medium
                /\ settings'.maxRenderDistance >= settings.maxRenderDistance
          /\ PoorPerformance(fpsHistory', settings.targetFPS) =>
                /\ settings'.lodDistances.high <= settings.lodDistances.high
                /\ settings'.lodDistances.medium <= settings.lodDistances.medium
                /\ settings'.maxRenderDistance <= settings.maxRenderDistance
      ]_vars

\* the poor-performance half of C26 taken alone
PoorBranchNeverIncreases ==
    [][(settings.adaptiveQuality /\ now' # now
        /\ PoorPerformance(fpsHistory', settings.targetFPS)) =>
          /\ settings'.lodDistances.high <= settings.lodDistances.high
          /\ settings'.lodDistances.medium <= settings.lodDistances.medium
          /\ settings'.maxRenderDistance <= settings.maxRenderDistance
      ]_vars

----------------------------------------------------------------------------
(* Properties of useLoadingManager *)

\* C27: once useLoadingManager is mounted the loading sequence runs and
\* isLoading eventually becomes false; and loadingProgress is 100 only while
\* the last step runs or after it has completed.
C27_LoadingLiveness ==
    /\ managerMounted ~> ~appStore.isLoading
    /\ [](appStore.loadingProgress = 100 * ProgressScale =>
             currentStep >= Len(LOADING_STEPS) - 1)

\* the first half of C27 taken alone
MountedLeadsToLoaded == managerMounted ~> ~appStore.isLoading

\* the second half of C27 taken alone
FullProgressInLastStep ==
    appStore.loadingProgress = 100 * ProgressScale =>
        currentStep >= Len(LOADING_STEPS) - 1

\* a sequence that was started does finish
StartedLeadsToLoaded == (managerTimer # "none") ~> ~appStore.isLoading

----------------------------------------------------------------------------
(* Properties of throttle *)

\* C28: func is executed at most once in any time window of length delay:
\* two executions of func are at least delay apart, whenever the timer fires
\* at or after its due time.
C28_ThrottleWindow ==
    \A i, j \in DOMAIN executions :
        i < j => executions[j].time - executions[i].time >= ThrottleDelay

----------------------------------------------------------------------------
(* Properties of useVancouverGeoData *)

\* load id settles in this step
Settles(id) ==
    /\ id \in DOMAIN geoLoads
    /\ geoLoads'[id].pc # geoLoads[id].pc

\* load id is the most recently started load and is not cancelled
LatestAndLive(id) ==
    /\ Len(geoLoads) = id
    /\ ~geoLoads[id].isCancelled

\* C29: a load that was cancelled writes nothing into the hook state when it
\* completes or fails; only the most recently started load publishes; and
\* while the latest load is not cancelled, loading eventually becomes false.
C29_Cancellation ==
    /\ [][\A id \in 1..MaxLoads :
             Settles(id) =>
                /\ geoLoads[id].isCancelled => geoData' = geoData
                /\ geoData' # geoData =>
                      id = Len(geoLoads) /\ ~geoLoads[id].isCancelled
         ]_vars
    /\ \A id \in 1..MaxLoads :
          LatestAndLive(id) ~> (~geoData.loading \/ ~LatestAndLive(id))

\* C29 witness: load 1 was cancelled by a change of options while in flight
\* and has settled since; load 2, with parks and water, has published.
C29_Witness ==
    /\ Len(geoLoads) = 2
    /\ geoLoads[1].isCancelled /\ geoLoads[1].pc = "done"
    /\ geoLoads[2].pc = "done" /\ ~geoLoads[2].isCancelled
    /\ geoData.buildings = 2 /\ geoData.parks = 2 /\ geoData.water = 0
    /\ ~geoData.loading

----------------------------------------------------------------------------
(* Properties of loadVancouverBuildingsFromGeoJSON *)

\* C30: for every dataset size and every maxBuildings >= 1, the number of
\* sampled features, and so the number of buildings returned, is at most
\* maxBuildings.
C30_SampleBound ==
    geoJsonLoad.status = "resolved" =>
        /\ geoJsonLoad.sampledFeatures <= geoJsonLoad.maxBuildings
        /\ geoJsonLoad.buildings <= geoJsonLoad.maxBuildings

\* what the sampling does keep: fewer than twice maxBuildings
SampleBelowTwice ==
    geoJsonLoad.status = "resolved" =>
        geoJsonLoad.sampledFeatures < 2 * geoJsonLoad.maxBuildings

====
